---------------------------- MODULE Spec2Model ----------------------------
(***************************************************************************)
(* The sliding-window chapter cache (core/ChapterCache.ts) of the reader,  *)
(* together with the parts of the format adapters and of the reader store  *)
(* that decide its behaviour.                                              *)
(*                                                                         *)
(* JavaScript runs one task at a time, so every action below is one run    *)
(* of code between two suspension points: the synchronous head of          *)
(* getChapter up to `await this.loadChapter`, the continuation after that  *)
(* await (with, for a prefetch-issued call, the continuation of            *)
(* prefetchChapters that the same microtask checkpoint runs), one idle     *)
(* callback, and clear().  Only the adapter's load of a chapter the book   *)
(* does not hold yet waits for I/O; a promise that is already resolved     *)
(* yields to microtasks only, so what follows it is part of the same step. *)
(*                                                                         *)
(* A ContentLayer[] array is an object; the model names it by a serial     *)
(* number that is unique among the arrays of one chapter that are still    *)
(* referenced (0 is the empty array `[]`).  A chapter listed in `images`   *)
(* yields layers that carry one blob: URL minted by the load, named by the *)
(* pair <<chapter, serial>>.  Loaded chapters have at least one layer.     *)
(*                                                                         *)
(* Date.now() is monotone with millisecond resolution: a new stamp is      *)
(* equal to or later than the latest stamp handed out.  The code only      *)
(* compares stamps, so they are kept up to order (Normalise).              *)
(***************************************************************************)
EXTENDS Integers, Sequences, FiniteSets, TLC

\* ------------------------------------------------------------ constants
MAX_CACHE_SIZE == 5

\* `oldestTime = Infinity` and `oldestChapterId = null` of evictIfNeeded
Infinity == -1
NoChapter == -1

\* ------------------------------------------------------------ bounds
NumChapters == 6        \* chapters of the book under Spec
MaxCalls == 2           \* foreground getChapter calls issued in one run
MaxClears == 1          \* clear() calls in one run
MaxFails == 1           \* adapter loads that reject in one run
MaxTies == 1            \* Date.now() results equal to the stamp before
MaxForeground == 1      \* foreground calls suspended at once
MaxTasks == 2           \* prefetchChapters invocations suspended at once
MaxIdle == 3            \* idle callbacks scheduled and not yet run
SmallChapters == 3      \* chapters of the book under SpecSmall
ScenarioChapters == 10  \* chapters of the book of scenario D

VARIABLES
    numChapters,    \* book.chapters.length
    images,         \* the chapters whose layers carry an image
    cache,          \* Map<number, CacheEntry>, in insertion order
    chapters,       \* book.chapters[i].layers / isLoaded (+ handle state)
    prefetchQueue,  \* Set<number>
    idle,           \* callbacks handed to requestIdleCallback / setTimeout
    tasks,          \* prefetchChapters invocations suspended at an await
    fg,             \* foreground getChapter calls suspended at the load
    lastRet,        \* what the latest foreground call returned
    budget,         \* what the run may still do (the bounds above)
    ev,             \* what the latest step did, in order (observation only)
    input,          \* the arguments of an adapter function under study
    output,         \* what that function returned
    db,             \* the IndexedDB tables `books` and `progress`
    lib,            \* the refs of the library and progress composables
    ops             \* importBook, deleteBook, saveProgress calls in flight

cacheVars == <<numChapters, images, cache, chapters, prefetchQueue, idle,
               tasks, fg, lastRet, budget, ev>>

libVars == <<db, lib, ops>>

vars == <<cacheVars, input, output, libVars>>

ChapterIds == 0 .. (numChapters - 1)

\* the ids a caller may pass: the chapters, one below and one above
CallIds == -1 .. numChapters

\* ------------------------------------------------------------ the Map
Resident(c) == {c[i].chapterId : i \in 1 .. Len(c)}

Has(c, k) == k \in Resident(c)

IndexOf(c, k) == CHOOSE i \in 1 .. Len(c) : c[i].chapterId = k

Get(c, k) == c[IndexOf(c, k)]

\* Map.set: a present key keeps its place, a new key goes last
CacheSet(c, k, layers, t) ==
    LET e == [chapterId |-> k, layers |-> layers, lastAccess |-> t]
    IN  IF Has(c, k) THEN [c EXCEPT ![IndexOf(c, k)] = e] ELSE Append(c, e)

\* Map.delete
CacheDelete(c, k) == SelectSeq(c, LAMBDA e : e.chapterId # k)

Stamps(c) == {c[i].lastAccess : i \in 1 .. Len(c)}

MaxStamp(c) == CHOOSE t \in Stamps(c) : \A u \in Stamps(c) : u <= t

MinStamp(c) == CHOOSE t \in Stamps(c) : \A u \in Stamps(c) : t <= u

\* Date.now(): the latest stamp again (dt = 0) or a later one (dt = 1)
DateNow(c, dt) == IF c = <<>> THEN 0 ELSE MaxStamp(c) + dt

\* the stamps renumbered 0, 1, 2, ... in their order
Normalise(c) ==
    [i \in 1 .. Len(c) |->
        [c[i] EXCEPT !.lastAccess =
            Cardinality({u \in Stamps(c) : u < c[i].lastAccess})]]

\* ------------------------------------------------------------ layers
HandlesOf(k, layers) ==
    IF layers # 0 /\ k \in images THEN {<<k, layers>>} ELSE {}

Unloaded == [layers |-> 0, isLoaded |-> FALSE, released |-> FALSE]

\* a new array for chapter k: a serial no live reference to k's arrays holds
FreshLayers(k) ==
    LET used == {chapters[k].layers} \cup
                (IF lastRet.id = k THEN {lastRet.layers} ELSE {})
    IN  CHOOSE n \in 1 .. 3 : n \notin used /\ \A m \in 1 .. (n - 1) : m \in used

\* what one step did: `op` is what became of a getChapter call in it
\* ("hit", "loaded", "failed", "issued") or "clear"; `by` is who called
NoEvent ==
    [op |-> "none", by |-> "none", id |-> NoChapter, ret |-> 0,
     prev |-> 0, stale |-> FALSE, evicted |-> NoChapter, evictedAt |-> 0,
     evictedTime |-> 0, minTime |-> 0, carried |-> {}, revoked |-> {},
     double |-> FALSE, sched |-> {}, resident |-> {}, inflight |-> {},
     dead |-> FALSE]

NoRet == [id |-> NoChapter, layers |-> 0, lost |-> "no", open |-> FALSE]

SeqToSet(s) == {s[i] : i \in 1 .. Len(s)}

RemoveAt(s, i) == SubSeq(s, 1, i - 1) \o SubSeq(s, i + 1, Len(s))

\* ------------------------------------------------------------ eviction
\* cleanupBlobUrls: revoke every blob: image of book.chapters[k].layers
CleanupBlobUrls(chs, k) ==
    LET hs == HandlesOf(k, chs[k].layers)
    IN  [chapters |-> IF hs # {} THEN [chs EXCEPT ![k].released = TRUE] ELSE chs,
         revoked  |-> hs,
         double   |-> hs # {} /\ chs[k].released]

\* the scan with the comparison turned round: it ends on the newest entry
RECURSIVE ScanNewest(_, _, _, _)
ScanNewest(c, i, oldestChapterId, oldestTime) ==
    IF i > Len(c) THEN oldestChapterId
    ELSE IF oldestTime = Infinity \/ c[i].lastAccess > oldestTime
         THEN ScanNewest(c, i + 1, c[i].chapterId, c[i].lastAccess)
         ELSE ScanNewest(c, i + 1, oldestChapterId, oldestTime)

\* the loop of evictIfNeeded over cache.entries()
RECURSIVE ScanOldest(_, _, _, _)
ScanOldest(c, i, oldestChapterId, oldestTime) ==
    IF i > Len(c) THEN oldestChapterId
    ELSE IF oldestTime = Infinity \/ c[i].lastAccess < oldestTime
         THEN ScanOldest(c, i + 1, c[i].chapterId, c[i].lastAccess)
         ELSE ScanOldest(c, i + 1, oldestChapterId, oldestTime)

\* the size test off by one: a sixth entry is let in
OverCapacityByOne(c) == Len(c) > MAX_CACHE_SIZE + 1

OverCapacity(c) == Len(c) > MAX_CACHE_SIZE

EvictIfNeeded(c, chs) ==
    IF ~OverCapacity(c)
    THEN [cache |-> c, chapters |-> chs, evicted |-> NoChapter,
          evictedAt |-> 0, evictedTime |-> 0, minTime |-> 0, carried |-> {},
          revoked |-> {}, double |-> FALSE]
    ELSE CHOOSE r \in
             {LET chs1 == [chs EXCEPT ![old] = Unloaded]
                  cl   == CleanupBlobUrls(chs1, old)
              IN  [cache |-> CacheDelete(c, old), chapters |-> cl.chapters,
                   evicted |-> old, evictedAt |-> IndexOf(c, old),
                   evictedTime |-> Get(c, old).lastAccess,
                   minTime |-> MinStamp(c),
                   carried |-> HandlesOf(old, Get(c, old).layers),
                   revoked |-> cl.revoked, double |-> cl.double] :
                  old \in {ScanOldest(c, 1, NoChapter, Infinity)}} : TRUE

\* ------------------------------------------------------------ prefetch
\* a window of the next three chapters and no previous one
PrefetchIdsAhead(k) ==
    SelectSeq(<<k + 1, k + 2, k + 3>>, LAMBDA n : n < numChapters)

PrefetchIds(k) ==
    (IF k > 0 THEN <<k - 1>> ELSE <<>>) \o
    SelectSeq(<<k + 1, k + 2>>, LAMBDA n : n < numChapters)

ToFetch(c, q, k) ==
    SelectSeq(PrefetchIds(k), LAMBDA id : ~Has(c, id) /\ id \notin q)

\* schedulePrefetch: one callback for the ids to fetch, none when empty
SchedulePrefetch(c, q, idl, k, stale) ==
    IF ToFetch(c, q, k) = <<>> THEN idl
    ELSE Append(idl, [ids |-> ToFetch(c, q, k), stale |-> stale])

\* whether the blob: URLs of the layers getChapter returns were revoked
\* by the time it returns: before the call, or by its own eviction
IsRevoked(k, layers, released, revoked) ==
    HandlesOf(k, layers) # {} /\ (released \/ <<k, layers>> \in revoked)

\* getChapter after `await this.loadChapter`: store, mirror, evict, schedule
AfterLoad(c, chs, q, idl, k, layers, released, dt, by, stale) ==
    LET c1   == CacheSet(c, k, layers, DateNow(c, dt))
        chs1 == [chs EXCEPT ![k] = [layers |-> layers, isLoaded |-> TRUE,
                                    released |-> released]]
    IN  CHOOSE r \in
            {LET idl1 == SchedulePrefetch(e.cache, q, idl, k, stale)
             IN
             [cache |-> Normalise(e.cache), chapters |-> e.chapters,
              idle |-> idl1,
              ev |-> [op |-> "loaded", by |-> by, id |-> k, ret |-> layers,
                      prev |-> 0, stale |-> stale, evicted |-> e.evicted,
                      evictedAt |-> e.evictedAt,
                      evictedTime |-> e.evictedTime, minTime |-> e.minTime,
                      carried |-> e.carried, revoked |-> e.revoked,
                      double |-> e.double,
                      sched |-> IF Len(idl1) > Len(idl)
                                THEN SeqToSet(idl1[Len(idl1)].ids) ELSE {},
                      resident |-> Resident(e.cache), inflight |-> q,
                      dead |-> IsRevoked(k, layers, released, e.revoked)]] :
                 e \in {EvictIfNeeded(c1, chs1)}} : TRUE

\* the adapters return chapter.layers as it is when the chapter is loaded
AdapterHasLayers(chs, k) == chs[k].isLoaded /\ chs[k].layers # 0

\* `const chapter = book.chapters[chapterId]; if (!chapter) throw`
ChapterMissing(chs, k) == k \notin DOMAIN chs

\* the throw placed after schedulePrefetch instead of before the load
GetChapterMissingLate(c, q, idl, k) ==
    [idle |-> SchedulePrefetch(c, q, idl, k, FALSE),
     ev   |-> [NoEvent EXCEPT !.op = "failed", !.by = "fg", !.id = k,
                              !.resident = Resident(c), !.inflight = q]]

\* getChapter on an id the book has no chapter for: the adapter throws
\* before anything is stored, and getChapter rejects with that error
GetChapterMissing(c, q, idl, k) ==
    [idle |-> idl,
     ev   |-> [NoEvent EXCEPT !.op = "failed", !.by = "fg", !.id = k,
                              !.resident = Resident(c), !.inflight = q]]

\* what became of the chapter the latest foreground call returned
Lose(r, evs, by) ==
    IF /\ r.id # NoChapter
       /\ r.lost = "no"
       /\ \E i \in 1 .. Len(evs) : evs[i].evicted = r.id
    THEN [r EXCEPT !.lost = by] ELSE r

\* ------------------------------------------------------------ Init
NoInput == [fn |-> "none"]

NoOutput == [fn |-> "none"]

InitCache(n, b) ==
    /\ numChapters = n
    /\ budget = b
    /\ images = {k \in 0 .. (n - 1) : k % 2 = 0}
    /\ cache = <<>>
    /\ chapters = [k \in 0 .. (n - 1) |-> Unloaded]
    /\ prefetchQueue = {}
    /\ idle = <<>>
    /\ tasks = <<>>
    /\ fg = <<>>
    /\ lastRet = NoRet
    /\ ev = <<>>

\* `existing` undefined, `currentProgress.value` null
NoProgress == [id |-> 0, bookId |-> 0, position |-> 0]

\* what the library may still be asked to do in a run
Quota(i, d, s) == [imports |-> i, deletes |-> d, saves |-> s]

\* the tables with books bs (id :> file) and progress records pr, and the
\* refs after loadBooks; lastSaved[b] is the position of the saveProgress
\* call for book b that returned last (observation only)
InitLibrary(bs, pr, q) ==
    /\ db = [books |-> bs, progress |-> pr, nextKey |-> Cardinality(pr) + 1]
    /\ lib = [shelf |-> DOMAIN bs, importing |-> FALSE,
              current |-> NoProgress, lastSaved |-> <<>>, quota |-> q]
    /\ ops = <<>>

\* no book stored, nothing in flight
NoLibrary == InitLibrary(<<>>, {}, Quota(0, 0, 0))

InitBook(n, b) ==
    InitCache(n, b) /\ NoLibrary /\ input = NoInput /\ output = NoOutput

Budget(c, x, f, t, n) ==
    [calls |-> c, clears |-> x, fails |-> f, ties |-> t, tasks |-> n]

\* a run spends one of these budgets: the bounds are explored one at a
\* time, each beside a single foreground call
Budgets ==
    {Budget(MaxCalls, 0, 0, 0, MaxTasks), Budget(1, MaxClears, 0, 0, MaxTasks),
     Budget(1, 0, MaxFails, 0, MaxTasks), Budget(1, 0, 0, MaxTies, MaxTasks)}

Init == \E b \in Budgets : InitBook(NumChapters, b)

\* the values Date.now() may give: dt = 0 repeats the latest stamp
Ticks == IF budget.ties > 0 THEN {0, 1} ELSE {1}

Stamped(evs) == \E i \in 1 .. Len(evs) : evs[i].op \in {"hit", "loaded"}

\* a step that stamped an entry while the clock stood still used up a tie
Spend(b, dt, evs) ==
    IF dt = 0 /\ Stamped(evs) /\ cache # <<>>
    THEN [b EXCEPT !.ties = @ - 1] ELSE b

\* ------------------------------------------------------------ foreground
\* readerStore.loadChapter -> chapterCache.getChapter(k), up to its first
\* wait: a hit returns at once; a miss calls the adapter, which hands back
\* chapter.layers when the book already holds them and loads otherwise
FgGetChapter(k, dt) ==
    /\ budget.calls > 0
    /\ UNCHANGED <<libVars, input, output, numChapters, images, prefetchQueue, tasks>>
    /\ IF Has(cache, k)
       THEN /\ cache' = Normalise([cache EXCEPT ![IndexOf(cache, k)].lastAccess =
                                        DateNow(cache, dt)])
            /\ lastRet' = [id |-> k, layers |-> Get(cache, k).layers,
                           lost |-> "no", open |-> TRUE]
            /\ ev' = <<[NoEvent EXCEPT !.op = "hit", !.by = "fg", !.id = k,
                                       !.ret = Get(cache, k).layers,
                                       !.prev = IF /\ lastRet.id = k
                                                   /\ lastRet.lost = "no"
                                                   /\ lastRet.open
                                                THEN lastRet.layers ELSE 0,
                                       !.resident = Resident(cache),
                                       !.inflight = prefetchQueue,
                                       !.dead =
                                           IsRevoked(k, Get(cache, k).layers,
                                                     chapters[k].released,
                                                     {})]>>
            /\ UNCHANGED <<chapters, idle, fg>>
       ELSE IF ChapterMissing(chapters, k)
       THEN \E r \in {GetChapterMissing(cache, prefetchQueue, idle, k)} :
                /\ Len(r.idle) <= MaxIdle
                /\ idle' = r.idle
                /\ lastRet' = [lastRet EXCEPT !.open = FALSE]
                /\ ev' = <<r.ev>>
                /\ UNCHANGED <<cache, chapters, fg>>
       ELSE IF AdapterHasLayers(chapters, k)
       THEN \E r \in {AfterLoad(cache, chapters, prefetchQueue, idle, k,
                                 chapters[k].layers, chapters[k].released,
                                 dt, "fg", FALSE)} :
                /\ Len(r.idle) <= MaxIdle
                /\ cache' = r.cache
                /\ chapters' = r.chapters
                /\ idle' = r.idle
                /\ lastRet' = Lose([id |-> k, layers |-> r.ev.ret,
                                    lost |-> "no", open |-> TRUE],
                                   <<r.ev>>, "fg")
                /\ ev' = <<r.ev>>
                /\ UNCHANGED fg
       ELSE /\ Len(fg) < MaxForeground
            /\ fg' = Append(fg, [id |-> k, dup |-> k \in prefetchQueue])
            /\ lastRet' = [lastRet EXCEPT !.open = FALSE]
            /\ ev' = <<[NoEvent EXCEPT !.op = "issued", !.by = "fg", !.id = k]>>
            /\ UNCHANGED <<cache, chapters, idle>>
    /\ budget' = Spend([budget EXCEPT !.calls = @ - 1], dt, ev')

\* the adapter's load of a foreground call resolves: getChapter goes on
FgLoadDone(i, dt) ==
    \E k \in {fg[i].id} :
    \E r \in {AfterLoad(cache, chapters, prefetchQueue, idle, k,
                        FreshLayers(k), FALSE, dt, "fg", FALSE)} :
        /\ Len(r.idle) <= MaxIdle
        /\ cache' = r.cache
        /\ chapters' = r.chapters
        /\ idle' = r.idle
        /\ fg' = RemoveAt(fg, i)
        /\ lastRet' = Lose([id |-> k, layers |-> r.ev.ret, lost |-> "no",
                            open |-> TRUE],
                           <<r.ev>>, "fg")
        /\ ev' = <<r.ev>>
        /\ budget' = Spend(budget, dt, ev')
        /\ UNCHANGED <<libVars, input, output, numChapters, images, prefetchQueue, tasks>>

\* the adapter's load rejects: getChapter rethrows to the foreground caller
FgLoadFail(i) ==
    /\ budget.fails > 0
    /\ budget' = [budget EXCEPT !.fails = @ - 1]
    /\ fg' = RemoveAt(fg, i)
    /\ ev' = <<[NoEvent EXCEPT !.op = "failed", !.by = "fg", !.id = fg[i].id]>>
    /\ UNCHANGED <<libVars, input, output, numChapters, images, cache, chapters, prefetchQueue, idle,
                   tasks, lastRet>>

\* ------------------------------------------------------------ prefetch
\* `if (this.cache.has(chapterId)) continue`
RECURSIVE NextPos(_, _, _)
NextPos(c, ids, pos) ==
    IF pos > Len(ids) THEN pos
    ELSE IF Has(c, ids[pos]) THEN NextPos(c, ids, pos + 1) ELSE pos

\* the loop of prefetchChapters from position pos up to its next wait:
\* skip resident ids, mark the next one in flight and call getChapter on
\* it (a miss, the cache was just looked up).  When the adapter hands back
\* layers the book holds, getChapter completes, `finally` unmarks the id
\* and the loop goes on.
RECURSIVE PrefetchLoop(_, _, _, _, _, _, _, _, _)
PrefetchLoop(c, chs, q, idl, ids, pos, stale, dt, evs) ==
    LET p == NextPos(c, ids, pos)
    IN  IF p > Len(ids)
        THEN [cache |-> c, chapters |-> chs, queue |-> q, idle |-> idl,
              task |-> <<>>, ev |-> evs]
        ELSE LET k  == ids[p]
                 q1 == q \cup {k}
             IN  IF AdapterHasLayers(chs, k)
                 THEN LET r == AfterLoad(c, chs, q1, idl, k, chs[k].layers,
                                         chs[k].released, dt, "prefetch", stale)
                      IN  PrefetchLoop(r.cache, r.chapters, q1 \ {k}, r.idle,
                                       ids, p + 1, stale, dt, Append(evs, r.ev))
                 ELSE [cache |-> c, chapters |-> chs, queue |-> q1,
                       idle |-> idl,
                       task |-> <<[ids |-> ids, pos |-> p, stale |-> stale,
                                   failed |-> FALSE]>>,
                       ev |-> Append(evs, [NoEvent EXCEPT !.op = "issued",
                                              !.by = "prefetch", !.id = k,
                                              !.stale = stale])]

\* whether a load of the batch has been rejected so far (observation only)
KeepFailed(task, f) == [j \in 1 .. Len(task) |-> [task[j] EXCEPT !.failed = f]]

\* the browser runs the oldest scheduled callback: prefetchChapters(toFetch)
RunIdle(dt) ==
    /\ idle # <<>>
    /\ \E r \in {PrefetchLoop(cache, chapters, prefetchQueue, Tail(idle),
                               idle[1].ids, 1, idle[1].stale, dt, <<>>)} :
           /\ Len(tasks) + Len(r.task) <= budget.tasks
           /\ Len(r.idle) <= MaxIdle
           /\ cache' = r.cache
           /\ chapters' = r.chapters
           /\ prefetchQueue' = r.queue
           /\ idle' = r.idle
           /\ tasks' = tasks \o r.task
           /\ lastRet' = Lose(lastRet, r.ev, "prefetch")
           /\ ev' = r.ev
           /\ budget' = Spend(budget, dt, ev')
    /\ UNCHANGED <<libVars, input, output, numChapters, images, fg>>

\* the adapter's load of task t resolves: getChapter goes on and returns,
\* then prefetchChapters does (finally, next ids)
PrefetchDone(t, dt) ==
    LET k == t.ids[t.pos]
    IN  CHOOSE r \in
            {PrefetchLoop(a.cache, a.chapters, prefetchQueue \ {k}, a.idle,
                          t.ids, t.pos + 1, t.stale, dt, <<a.ev>>) :
                 a \in {AfterLoad(cache, chapters, prefetchQueue, idle, k,
                                  FreshLayers(k), FALSE, dt, "prefetch",
                                  t.stale)}} : TRUE

PrefetchLoadDone(i, dt) ==
    \E r \in {PrefetchDone(tasks[i], dt)} :
        /\ budget' = Spend(budget, dt, r.ev)
        /\ Len(r.idle) <= MaxIdle
        /\ cache' = r.cache
        /\ chapters' = r.chapters
        /\ prefetchQueue' = r.queue
        /\ idle' = r.idle
        /\ tasks' = SubSeq(tasks, 1, i - 1) \o
                     KeepFailed(r.task, tasks[i].failed) \o
                     SubSeq(tasks, i + 1, Len(tasks))
        /\ lastRet' = Lose(lastRet, r.ev, "prefetch")
        /\ ev' = r.ev
        /\ UNCHANGED <<libVars, input, output, numChapters, images, fg>>

\* a prefetchChapters whose try encloses the whole loop: the first
\* rejection ends the batch
PrefetchFailedAbort(t, dt) ==
    [cache |-> cache, chapters |-> chapters,
     queue |-> prefetchQueue \ {t.ids[t.pos]}, idle |-> idle, task |-> <<>>,
     ev |-> <<[NoEvent EXCEPT !.op = "failed", !.by = "prefetch",
                              !.id = t.ids[t.pos], !.stale = t.stale]>>]

\* the adapter's load rejects: getChapter rejects into the catch of
\* prefetchChapters (log), then finally and the next ids
PrefetchFailed(t, dt) ==
    LET k == t.ids[t.pos]
    IN  PrefetchLoop(cache, chapters, prefetchQueue \ {k}, idle,
                     t.ids, t.pos + 1, t.stale, dt,
                     <<[NoEvent EXCEPT !.op = "failed", !.by = "prefetch",
                                       !.id = k, !.stale = t.stale]>>)

PrefetchLoadFail(i, dt) ==
    \E r \in {PrefetchFailed(tasks[i], dt)} :
        /\ budget.fails > 0
        /\ budget' = Spend([budget EXCEPT !.fails = @ - 1], dt, r.ev)
        /\ Len(r.idle) <= MaxIdle
        /\ cache' = r.cache
        /\ chapters' = r.chapters
        /\ prefetchQueue' = r.queue
        /\ idle' = r.idle
        /\ tasks' = SubSeq(tasks, 1, i - 1) \o KeepFailed(r.task, TRUE) \o
                     SubSeq(tasks, i + 1, Len(tasks))
        /\ lastRet' = Lose(lastRet, r.ev, "prefetch")
        /\ ev' = r.ev
        /\ UNCHANGED <<libVars, input, output, numChapters, images, fg>>

\* ------------------------------------------------------------ clear
\* `for (const [chapterId] of this.cache.entries()) cleanupBlobUrls(chapterId)`
RECURSIVE ClearLoop(_, _, _)
ClearLoop(c, i, acc) ==
    IF i > Len(c) THEN acc
    ELSE LET cl == CleanupBlobUrls(acc.chapters, c[i].chapterId)
         IN  ClearLoop(c, i + 1,
                       [chapters |-> cl.chapters,
                        revoked  |-> acc.revoked \cup cl.revoked,
                        double   |-> acc.double \/ cl.double])

MarkStale(s) == [i \in 1 .. Len(s) |-> [s[i] EXCEPT !.stale = TRUE]]

\* clear(), as readerStore.setActiveBook and readerStore.cleanup call it
Clear ==
    /\ budget.clears > 0
    /\ budget' = [budget EXCEPT !.clears = @ - 1]
    /\ \E r \in {ClearLoop(cache, 1, [chapters |-> chapters, revoked |-> {},
                                       double |-> FALSE])} :
           /\ chapters' = r.chapters
           /\ ev' = <<[NoEvent EXCEPT !.op = "clear", !.revoked = r.revoked,
                                      !.double = r.double]>>
    /\ cache' = <<>>
    /\ prefetchQueue' = {}
    /\ tasks' = MarkStale(tasks)
    /\ idle' = MarkStale(idle)
    /\ lastRet' = IF Has(cache, lastRet.id) /\ lastRet.lost = "no"
                  THEN [lastRet EXCEPT !.lost = "clear"] ELSE lastRet
    /\ UNCHANGED <<libVars, input, output, numChapters, images, fg>>

\* ------------------------------------------------------------ Spec
Next ==
    \/ \E k \in CallIds, dt \in Ticks : FgGetChapter(k, dt)
    \/ \E i \in 1 .. Len(fg), dt \in Ticks : FgLoadDone(i, dt)
    \/ \E i \in 1 .. Len(fg) : FgLoadFail(i)
    \/ \E dt \in Ticks : RunIdle(dt)
    \/ \E i \in 1 .. Len(tasks), dt \in Ticks : PrefetchLoadDone(i, dt)
    \/ \E i \in 1 .. Len(tasks), dt \in Ticks : PrefetchLoadFail(i, dt)
    \/ Clear

Spec == Init /\ [][Next]_vars

\* a small book, with one more call and one more clear() than under Spec
InitSmall ==
    \E b \in {Budget(MaxCalls + 1, MaxClears + 1, 0, 0, MaxTasks),
              Budget(1, 0, MaxFails, MaxTies, MaxTasks)} :
        InitBook(SmallChapters, b)

SpecSmall == InitSmall /\ [][Next]_vars

\* scenario D: one getChapter(2) on an empty cache, then only prefetch work
InitD == InitBook(ScenarioChapters, Budget(1, 0, 0, MaxTies + 1, 1))

NextD ==
    \/ \E dt \in Ticks : FgGetChapter(2, dt)
    \/ \E i \in 1 .. Len(fg), dt \in Ticks : FgLoadDone(i, dt)
    \/ \E dt \in Ticks : RunIdle(dt)
    \/ \E i \in 1 .. Len(tasks), dt \in Ticks : PrefetchLoadDone(i, dt)

SpecD == InitD /\ [][NextD]_vars

\* one getChapter(FairStart) on an empty cache, then only prefetch work, in
\* a browser that is idle whenever a callback is scheduled: the callback
\* runs before any load that is under way resolves.  Every callback is run
\* in the end and every load resolves in the end.
FairChapters == 7       \* chapters of the book under SpecFair
FairStart == 5          \* the chapter the foreground call asks for
FairTasks == 4          \* prefetchChapters invocations suspended at once

InitFair == InitBook(FairChapters, Budget(1, 0, 0, 0, FairTasks))

FairFgGetChapter == \E dt \in Ticks : FgGetChapter(FairStart, dt)

FairFgLoadDone == \E i \in 1 .. Len(fg), dt \in Ticks : FgLoadDone(i, dt)

FairRunIdle == \E dt \in Ticks : RunIdle(dt)

FairPrefetchLoadDone(i) ==
    /\ idle = <<>>
    /\ i <= Len(tasks)
    /\ \E dt \in Ticks : PrefetchLoadDone(i, dt)

NextFair ==
    \/ FairFgGetChapter
    \/ FairFgLoadDone
    \/ FairRunIdle
    \/ \E i \in 1 .. FairTasks : FairPrefetchLoadDone(i)

Fairness ==
    /\ WF_vars(FairFgLoadDone)
    /\ WF_vars(FairRunIdle)
    /\ \A i \in 1 .. FairTasks : WF_vars(FairPrefetchLoadDone(i))

SpecFair == InitFair /\ [][NextFair]_vars /\ Fairness

\* ------------------------------------------------------------ chunking
\* A paragraph is a string; the chunking code reads its length only.
\* `image` is a blob: URL or undefined (NoImage).
MAX_LAYER_LENGTH == 15000

NoImage == 0

MaxParas == 4           \* paragraphs in one chunking call
MaxStart == 1           \* the start index of a chunking call

ParagraphPool ==
    {[text |-> "a", length |-> 1],    [text |-> "b", length |-> 7000],
     [text |-> "c", length |-> 8000], [text |-> "d", length |-> 8000],
     [text |-> "e", length |-> 15001], [text |-> "f", length |-> 16000],
     [text |-> "g", length |-> 7000], [text |-> "h", length |-> 7000]}

RECURSIVE SeqsUpTo(_, _)
SeqsUpTo(S, n) ==
    IF n = 0 THEN {<<>>}
    ELSE LET shorter == SeqsUpTo(S, n - 1)
         IN  shorter \cup {Append(q, x) : q \in shorter, x \in S}

\* `paragraphs.reduce((sum, p) => sum + p.length, 0)`
RECURSIVE TotalChars(_)
TotalChars(paragraphs) ==
    IF paragraphs = <<>> THEN 0
    ELSE paragraphs[1].length + TotalChars(Tail(paragraphs))

Layer(paragraphs, startIndex, image) ==
    [paragraphs |-> paragraphs, startIndex |-> startIndex, image |-> image]

\* the test with the paragraph left out of the sum
ChunkIsFullLate(currentChunk, currentChunkSize, para) ==
    currentChunkSize > MAX_LAYER_LENGTH /\ Len(currentChunk) > 0

\* the test with >= for >: a chunk of exactly 15000 characters is cut
ChunkIsFullAtLimit(currentChunk, currentChunkSize, para) ==
    currentChunkSize + para.length >= MAX_LAYER_LENGTH /\ Len(currentChunk) > 0

\* `currentChunkSize + para.length > MAX_LAYER_LENGTH && currentChunk.length > 0`
ChunkIsFull(currentChunk, currentChunkSize, para) ==
    currentChunkSize + para.length > MAX_LAYER_LENGTH /\ Len(currentChunk) > 0

\* the loop and the final push of TxtAdapter.chunkParagraphs
RECURSIVE TxtChunkLoop(_, _, _, _, _, _)
TxtChunkLoop(paragraphs, i, layers, currentChunk, currentChunkSize, startIndex) ==
    IF i > Len(paragraphs)
    THEN IF Len(currentChunk) > 0
         THEN Append(layers, Layer(currentChunk, startIndex, NoImage))
         ELSE layers
    ELSE IF ChunkIsFull(currentChunk, currentChunkSize, paragraphs[i])
         THEN TxtChunkLoop(paragraphs, i + 1,
                           Append(layers, Layer(currentChunk, startIndex, NoImage)),
                           <<paragraphs[i]>>, paragraphs[i].length,
                           startIndex + Len(currentChunk))
         ELSE TxtChunkLoop(paragraphs, i + 1, layers,
                           Append(currentChunk, paragraphs[i]),
                           currentChunkSize + paragraphs[i].length, startIndex)

\* the chunking begun at the second paragraph
ChunkParagraphsRest(paragraphs) ==
    TxtChunkLoop(paragraphs, 2, <<>>, <<>>, 0, 0)

\* TxtAdapter.chunkParagraphs
ChunkParagraphs(paragraphs) ==
    TxtChunkLoop(paragraphs, 1, <<>>, <<>>, 0, 0)

\* the image put on every chunk
ChunkImageAlways(isFirstChunk, image) == image

\* `image: isFirstChunk ? image : undefined`
ChunkImage(isFirstChunk, image) == IF isFirstChunk THEN image ELSE NoImage

\* adapters/EpubAdapter.ts, addParagraphsWithChunking: the loop and the
\* final push; the result is the layers list and the index returned
RECURSIVE EpubChunkLoop(_, _, _, _, _, _, _, _)
EpubChunkLoop(paragraphs, i, layers, currentChunk, currentChunkSize, currentStartIndex, isFirstChunk, image) ==
    IF i > Len(paragraphs)
    THEN IF Len(currentChunk) > 0
         THEN [layers |-> Append(layers,
                                 Layer(currentChunk, currentStartIndex,
                                       ChunkImage(isFirstChunk, image))),
               next   |-> currentStartIndex + Len(currentChunk)]
         ELSE [layers |-> layers, next |-> currentStartIndex]
    ELSE IF ChunkIsFull(currentChunk, currentChunkSize, paragraphs[i])
         THEN EpubChunkLoop(paragraphs, i + 1,
                            Append(layers,
                                   Layer(currentChunk, currentStartIndex,
                                         ChunkImage(isFirstChunk, image))),
                            <<paragraphs[i]>>, paragraphs[i].length,
                            currentStartIndex + Len(currentChunk), FALSE, image)
         ELSE EpubChunkLoop(paragraphs, i + 1, layers,
                            Append(currentChunk, paragraphs[i]),
                            currentChunkSize + paragraphs[i].length,
                            currentStartIndex, isFirstChunk, image)

\* adapters/EpubAdapter.ts, addParagraphsWithChunking
EpubAddParagraphsWithChunking(layers, paragraphs, startGlobalIndex, image) ==
    IF TotalChars(paragraphs) <= MAX_LAYER_LENGTH
    THEN [layers |-> Append(layers, Layer(paragraphs, startGlobalIndex, image)),
          next   |-> startGlobalIndex + Len(paragraphs)]
    ELSE EpubChunkLoop(paragraphs, 1, layers, <<>>, 0, startGlobalIndex,
                       TRUE, image)

\* an index count that gives the image no index of its own
ImageSlotNone(isFirstChunk, image) == 0

\* `(image ? 1 : 0)` and `(isFirstChunk && image ? 1 : 0)`
ImageSlot(isFirstChunk, image) ==
    IF isFirstChunk /\ image # NoImage THEN 1 ELSE 0

\* composables/useUnifiedLibrary.ts, addParagraphsWithChunking: the loop
\* and the final push
RECURSIVE LibChunkLoop(_, _, _, _, _, _, _, _)
LibChunkLoop(paragraphs, i, layers, currentChunk, currentChunkSize, currentStartIndex, isFirstChunk, image) ==
    IF i > Len(paragraphs)
    THEN IF Len(currentChunk) > 0
         THEN [layers |-> Append(layers,
                                 Layer(currentChunk, currentStartIndex,
                                       ChunkImage(isFirstChunk, image))),
               next   |-> currentStartIndex + Len(currentChunk) +
                          ImageSlot(isFirstChunk, image)]
         ELSE [layers |-> layers, next |-> currentStartIndex]
    ELSE IF ChunkIsFull(currentChunk, currentChunkSize, paragraphs[i])
         THEN LibChunkLoop(paragraphs, i + 1,
                           Append(layers,
                                  Layer(currentChunk, currentStartIndex,
                                        ChunkImage(isFirstChunk, image))),
                           <<paragraphs[i]>>, paragraphs[i].length,
                           currentStartIndex + Len(currentChunk) +
                               ImageSlot(isFirstChunk, image),
                           FALSE, image)
         ELSE LibChunkLoop(paragraphs, i + 1, layers,
                           Append(currentChunk, paragraphs[i]),
                           currentChunkSize + paragraphs[i].length,
                           currentStartIndex, isFirstChunk, image)

\* composables/useUnifiedLibrary.ts, addParagraphsWithChunking
LibAddParagraphsWithChunking(layers, paragraphs, startIndex, image) ==
    IF TotalChars(paragraphs) <= MAX_LAYER_LENGTH
    THEN [layers |-> Append(layers, Layer(paragraphs, startIndex, image)),
          next   |-> startIndex + Len(paragraphs) + ImageSlot(TRUE, image)]
    ELSE LibChunkLoop(paragraphs, 1, layers, <<>>, 0, startIndex, TRUE, image)

\* one chunking call: any paragraphs, start index and image
InitChunk ==
    /\ InitCache(0, Budget(0, 0, 0, 0, 0))
    /\ NoLibrary
    /\ input \in {[fn |-> "chunk", paragraphs |-> ps, startIndex |-> st,
                    image |-> im] :
                      ps \in SeqsUpTo(ParagraphPool, MaxParas),
                      st \in 0 .. MaxStart, im \in {NoImage, 1}}
    /\ output = NoOutput

\* TxtAdapter.chunkParagraphs(paragraphs): it starts at 0 and has no image
CallChunkParagraphs ==
    /\ input.fn = "chunk" /\ output.fn = "none"
    /\ input.startIndex = 0 /\ input.image = NoImage
    /\ output' = [fn |-> "txt", layers |-> ChunkParagraphs(input.paragraphs),
                   next |-> 0]
    /\ UNCHANGED <<cacheVars, libVars, input>>

\* addParagraphsWithChunking of adapters/EpubAdapter.ts on an empty list
\* of layers; its callers pass paragraphs only when there are some
CallEpubAddParagraphs ==
    /\ input.fn = "chunk" /\ output.fn = "none"
    /\ input.paragraphs # <<>>
    /\ \E r \in {EpubAddParagraphsWithChunking(<<>>, input.paragraphs,
                                                input.startIndex, input.image)} :
           output' = [fn |-> "epub", layers |-> r.layers, next |-> r.next]
    /\ UNCHANGED <<cacheVars, libVars, input>>

\* addParagraphsWithChunking of composables/useUnifiedLibrary.ts
CallLibAddParagraphs ==
    /\ input.fn = "chunk" /\ output.fn = "none"
    /\ input.paragraphs # <<>>
    /\ \E r \in {LibAddParagraphsWithChunking(<<>>, input.paragraphs,
                                               input.startIndex, input.image)} :
           output' = [fn |-> "lib", layers |-> r.layers, next |-> r.next]
    /\ UNCHANGED <<cacheVars, libVars, input>>

NextChunk ==
    \/ CallChunkParagraphs
    \/ CallEpubAddParagraphs
    \/ CallLibAddParagraphs

SpecChunk == InitChunk /\ [][NextChunk]_vars

\* ------------------------------------------------------------ parseHTML
\* A chapter's markup: `body` is the sequence of body.children; an element
\* is [tag, text, src, children], `text` being its trimmed textContent
\* (NoText when empty) and `src` the kind of its src attribute: "in" a
\* path of a file of the archive, "out" a path of no file of it, "http"
\* an external URL, "" no attribute.
MaxKids == 3            \* children of body
MaxDivKids == 2         \* children of a nested container

NoText == [text |-> "", length |-> 0]

SomeImage == 1

Element(tag, text, src, children) ==
    [tag |-> tag, text |-> text, src |-> src, children |-> children]

LeafPool ==
    {Element("p", [text |-> "c", length |-> 8000], "", <<>>),
     Element("h1", [text |-> "a", length |-> 1], "", <<>>),
     Element("img", NoText, "in", <<>>),
     Element("img", NoText, "out", <<>>),
     Element("img", NoText, "http", <<>>),
     Element("img", NoText, "", <<>>)}

ElementPool ==
    LeafPool \cup
    {Element("div", NoText, "", kids) : kids \in SeqsUpTo(LeafPool, MaxDivKids)}

\* `const text = child.textContent?.trim(); if (text) currentParagraphs.push(text)`
PushText(st, text) ==
    IF text = NoText THEN st
    ELSE [st EXCEPT !.currentParagraphs = Append(@, text)]

\* whether the try block of the img branch gets its blob: no attribute,
\* no try; an external URL throws; a path of no file is rejected by
\* archive.request
ImageLoads(src) ==
    IF src = "" THEN FALSE
    ELSE IF src = "http" THEN FALSE
    ELSE src = "in"

\* a catch that keeps what was read so far as a layer of its own
OnImageFailedFlush(st) ==
    IF st.currentParagraphs = <<>> THEN st
    ELSE [layers |-> Append(st.layers, Layer(st.currentParagraphs, st.index,
                                             NoImage)),
          currentParagraphs |-> <<>>,
          index |-> st.index + Len(st.currentParagraphs)]

\* the catch of the img branch (and the branch without src): a log line
OnImageFailed(st) == st

\* adapters/EpubAdapter.ts: an image that was fetched cuts the paragraphs
EpubOnImage(st) ==
    IF st.currentParagraphs # <<>>
    THEN LET r == EpubAddParagraphsWithChunking(st.layers, st.currentParagraphs,
                                                st.index, SomeImage)
         IN  [layers |-> r.layers, currentParagraphs |-> <<>>, index |-> r.next]
    ELSE [st EXCEPT !.layers = Append(@, Layer(<<>>, st.index, SomeImage))]

\* adapters/EpubAdapter.ts, traverseDOM: `st` holds the layers and
\* currentParagraphs arrays (shared by all levels) and chapterParaCounter
RECURSIVE EpubTraverseDOM(_, _, _)
EpubTraverseDOM(children, i, st) ==
    IF i > Len(children) THEN st
    ELSE LET child == children[i]
         IN  EpubTraverseDOM(children, i + 1,
                 IF child.tag = "p" THEN PushText(st, child.text)
                 ELSE IF child.tag \in {"h1", "h2", "h3", "h4", "h5", "h6"}
                      THEN PushText(st, child.text)
                 ELSE IF child.tag = "img"
                      THEN IF ImageLoads(child.src) THEN EpubOnImage(st)
                           ELSE OnImageFailed(st)
                 ELSE IF Len(child.children) > 0
                      THEN EpubTraverseDOM(child.children, 1, st)
                 ELSE PushText(st, child.text))

\* adapters/EpubAdapter.ts, parseHTML: the value traverseDOM returns is
\* dropped, so the last paragraphs are added at chapterParaCounter = 0
EpubParseHTML(body) ==
    LET st == EpubTraverseDOM(body, 1, [layers |-> <<>>,
                                        currentParagraphs |-> <<>>, index |-> 0])
    IN  IF Len(st.currentParagraphs) > 0
        THEN EpubAddParagraphsWithChunking(st.layers, st.currentParagraphs,
                                           0, NoImage).layers
        ELSE st.layers

\* composables/useUnifiedLibrary.ts: an image that was fetched
LibOnImage(st) ==
    IF st.currentParagraphs # <<>>
    THEN LET r == LibAddParagraphsWithChunking(st.layers, st.currentParagraphs,
                                               st.index, SomeImage)
         IN  [layers |-> r.layers, currentParagraphs |-> <<>>, index |-> r.next]
    ELSE [st EXCEPT !.layers = Append(@, Layer(<<>>, st.index, SomeImage)),
                    !.index = @ + 1]

\* composables/useUnifiedLibrary.ts, traverseDOM
RECURSIVE LibTraverseDOM(_, _, _)
LibTraverseDOM(children, i, st) ==
    IF i > Len(children) THEN st
    ELSE LET child == children[i]
         IN  LibTraverseDOM(children, i + 1,
                 IF child.tag = "p" THEN PushText(st, child.text)
                 ELSE IF child.tag \in {"h1", "h2", "h3", "h4", "h5", "h6"}
                      THEN PushText(st, child.text)
                 ELSE IF child.tag = "img"
                      THEN IF ImageLoads(child.src) THEN LibOnImage(st)
                           ELSE OnImageFailed(st)
                 ELSE IF Len(child.children) > 0
                      THEN LibTraverseDOM(child.children, 1, st)
                 ELSE PushText(st, child.text))

\* composables/useUnifiedLibrary.ts, parseHTML
LibParseHTML(body) ==
    LET st == LibTraverseDOM(body, 1, [layers |-> <<>>,
                                       currentParagraphs |-> <<>>, index |-> 0])
    IN  IF Len(st.currentParagraphs) > 0
        THEN LibAddParagraphsWithChunking(st.layers, st.currentParagraphs,
                                          st.index, NoImage).layers
        ELSE st.layers

InitDom ==
    /\ InitCache(0, Budget(0, 0, 0, 0, 0))
    /\ NoLibrary
    /\ input \in {[fn |-> "parseHTML", body |-> b] :
                      b \in SeqsUpTo(ElementPool, MaxKids)}
    /\ output = NoOutput

CallEpubParseHTML ==
    /\ input.fn = "parseHTML" /\ output.fn = "none"
    /\ output' = [fn |-> "epubParse", layers |-> EpubParseHTML(input.body)]
    /\ UNCHANGED <<cacheVars, libVars, input>>

CallLibParseHTML ==
    /\ input.fn = "parseHTML" /\ output.fn = "none"
    /\ output' = [fn |-> "libParse", layers |-> LibParseHTML(input.body)]
    /\ UNCHANGED <<cacheVars, libVars, input>>

NextDom == CallEpubParseHTML \/ CallLibParseHTML

SpecDom == InitDom /\ [][NextDom]_vars

\* ------------------------------------------------------------ loadChapter
\* EpubAdapter.loadChapter(book, chapterId).  `book` is book.chapters, a
\* JavaScript array (index 0 first); `fails` names the step that fails in
\* this call, if any; `body` is the markup of the section.
MaxBook == 2            \* chapters of the book handed to loadChapter
MaxBody == 2            \* children of body in the section's markup

Diagnostic(text) == [text |-> text, length |-> 10]

ChapterPool ==
    {[isLoaded |-> FALSE, layers |-> <<>>],
     [isLoaded |-> TRUE,  layers |-> <<>>],
     [isLoaded |-> TRUE,
      layers |-> <<Layer(<<[text |-> "a", length |-> 1]>>, 0, NoImage)>>]}

FailurePoints == {"none", "open", "section", "load", "document", "parse"}

\* `book.chapters[chapterId]` is undefined
NoSuchChapter(book, chapterId) == chapterId < 0 \/ chapterId >= Len(book)

\* `chapter.isLoaded && chapter.layers.length > 0`
ChapterIsLoaded(chapter) == chapter.isLoaded /\ Len(chapter.layers) > 0

Raised(error) == [raised |-> TRUE, error |-> error, layers |-> <<>>]

Returned(layers) == [raised |-> FALSE, error |-> "", layers |-> layers]

\* adapters/EpubAdapter.ts, loadChapter
EpubLoadChapter(book, chapterId, fails, body) ==
    IF NoSuchChapter(book, chapterId) THEN Raised("NotFound")
    ELSE IF ChapterIsLoaded(book[chapterId + 1])
    THEN Returned(book[chapterId + 1].layers)
    ELSE IF fails = "open" THEN Raised("open")
    ELSE IF fails = "section"
    THEN Returned(<<Layer(<<Diagnostic("missing")>>, 0, NoImage)>>)
    ELSE IF fails = "document"
    THEN Returned(<<Layer(<<Diagnostic("empty")>>, 0, NoImage)>>)
    ELSE IF fails \in {"load", "parse"}
    THEN Returned(<<Layer(<<Diagnostic("failed"), Diagnostic(fails)>>,
                          0, NoImage)>>)
    ELSE Returned(EpubParseHTML(body))

InitLoad ==
    /\ InitCache(0, Budget(0, 0, 0, 0, 0))
    /\ NoLibrary
    /\ input \in {[fn |-> "loadChapter", book |-> bk, chapterId |-> k,
                    fails |-> f, body |-> b] :
                      bk \in SeqsUpTo(ChapterPool, MaxBook), k \in -1 .. MaxBook,
                      f \in FailurePoints, b \in SeqsUpTo(LeafPool, MaxBody)}
    /\ output = NoOutput

CallEpubLoadChapter ==
    /\ input.fn = "loadChapter" /\ output.fn = "none"
    /\ \E r \in {EpubLoadChapter(input.book, input.chapterId, input.fails,
                                  input.body)} :
           output' = [fn |-> "loadChapter", raised |-> r.raised,
                      error |-> r.error, layers |-> r.layers]
    /\ UNCHANGED <<cacheVars, libVars, input>>

NextLoad == CallEpubLoadChapter

SpecLoad == InitLoad /\ [][NextLoad]_vars

\* the paragraphs of a sequence of layers, end to end
RECURSIVE Concat(_)
Concat(layers) ==
    IF layers = <<>> THEN <<>>
    ELSE layers[1].paragraphs \o Concat(Tail(layers))

\* ------------------------------------------------------------ TxtAdapter
\* A text file is the sequence text.split('\n') of its lines.  A line is
\* [pad, text]: `text` is what trim() leaves of it and `pad` says whether
\* it had white space around.  "h1" and "h2" stand for lines that match
\* CHAPTER_REGEX (a heading such as chapter one, chapter two), "x" and
\* "y" for lines that do not, "body" for a line that reads as the title
\* of the default chapter and does not match either, "" for a blank line.
MaxLines == 5           \* lines of the file

HeadingTexts == {"h1", "h2"}

LinePool ==
    {[pad |-> FALSE, text |-> "h1"], [pad |-> TRUE, text |-> "h1"],
     [pad |-> FALSE, text |-> "h2"], [pad |-> FALSE, text |-> "x"],
     [pad |-> TRUE, text |-> "y"],   [pad |-> TRUE, text |-> ""],
     [pad |-> FALSE, text |-> "body"]}

\* line.trim()
Trim(line) == line.text

\* CHAPTER_REGEX.test(trimmedLine)
IsHeading(text) == text \in HeadingTexts

\* String.length of a trimmed line
Chars(text) == IF text = "" THEN 0 ELSE IF IsHeading(text) THEN 3 ELSE 1

NewChapter(id, title) ==
    [id |-> id, title |-> title, layers |-> <<>>, isLoaded |-> FALSE]

\* a splitChapters that makes no chapter for text before the first heading
RECURSIVE SplitLoopStrict(_, _, _, _)
SplitLoopStrict(lines, i, made, currentChapter) ==
    IF i > Len(lines) THEN made \o currentChapter
    ELSE IF IsHeading(Trim(lines[i]))
         THEN SplitLoopStrict(lines, i + 1, made \o currentChapter,
                  <<NewChapter(Len(made) + Len(currentChapter),
                               Trim(lines[i]))>>)
         ELSE SplitLoopStrict(lines, i + 1, made, currentChapter)

\* the loop of splitChapters; currentChapter is <<>> (null) or <<chapter>>,
\* and chapterIndex is the number of chapters made so far
RECURSIVE SplitLoop(_, _, _, _)
SplitLoop(lines, i, made, currentChapter) ==
    IF i > Len(lines) THEN made \o currentChapter
    ELSE IF Trim(lines[i]) = "" THEN SplitLoop(lines, i + 1, made, currentChapter)
    ELSE IF IsHeading(Trim(lines[i]))
         THEN SplitLoop(lines, i + 1, made \o currentChapter,
                        <<NewChapter(Len(made) + Len(currentChapter),
                                     Trim(lines[i]))>>)
         ELSE IF currentChapter = <<>>
              THEN SplitLoop(lines, i + 1, made,
                             <<NewChapter(Len(made), "body")>>)
              ELSE SplitLoop(lines, i + 1, made, currentChapter)

SplitChaptersStrict(lines) ==
    LET made == SplitLoopStrict(lines, 1, <<>>, <<>>)
    IN  IF made = <<>> THEN <<NewChapter(0, "whole")>> ELSE made

\* TxtAdapter.splitChapters ("body" and "whole" are its default titles)
SplitChapters(lines) ==
    LET made == SplitLoop(lines, 1, <<>>, <<>>)
    IN  IF made = <<>> THEN <<NewChapter(0, "whole")>> ELSE made

\* the first 0-based i in from .. Len(lines)-1 with lines[i].trim() = title,
\* or `none`
RECURSIVE FirstLine(_, _, _, _)
FirstLine(lines, title, from, none) ==
    IF from >= Len(lines) THEN none
    ELSE IF Trim(lines[from + 1]) = title THEN from
    ELSE FirstLine(lines, title, from + 1, none)

\* TxtAdapter.findChapterBounds, 0-based as in the code
FindChapterBounds(lines, chapterTitle, chapterId, allChapters) ==
    LET found     == FirstLine(lines, chapterTitle, 0, -1)
        startLine == IF found = -1 THEN 0 ELSE found + 1
        endLine   == IF chapterId < Len(allChapters) - 1
                     THEN FirstLine(lines, allChapters[chapterId + 2].title,
                                    startLine, Len(lines))
                     ELSE Len(lines)
    IN  [startLine |-> startLine, endLine |-> endLine]

\* the loop of loadChapter over lines[startLine .. endLine - 1]
RECURSIVE CollectParagraphs(_, _, _)
CollectParagraphs(lines, i, endLine) ==
    IF i >= endLine THEN <<>>
    ELSE LET line == Trim(lines[i + 1])
         IN  IF IsHeading(line) \/ line = ""
             THEN CollectParagraphs(lines, i + 1, endLine)
             ELSE <<[text |-> line, length |-> Chars(line)]>> \o
                  CollectParagraphs(lines, i + 1, endLine)

\* TxtAdapter.loadChapter; `lines` is the decoded book.rawData
TxtLoadChapter(book, chapterId, lines) ==
    IF NoSuchChapter(book, chapterId) THEN Raised("NotFound")
    ELSE IF ChapterIsLoaded(book[chapterId + 1])
    THEN Returned(book[chapterId + 1].layers)
    ELSE LET b == FindChapterBounds(lines, book[chapterId + 1].title,
                                    chapterId, book)
         IN  Returned(ChunkParagraphs(
                          CollectParagraphs(lines, b.startLine, b.endLine)))

InitTxt ==
    /\ InitCache(0, Budget(0, 0, 0, 0, 0))
    /\ NoLibrary
    /\ input \in {[fn |-> "txt", lines |-> ls] :
                      ls \in SeqsUpTo(LinePool, MaxLines) \ {<<>>}}
    /\ output = NoOutput

\* TxtAdapter.parse: the chapters of the book
CallTxtParse ==
    /\ input.fn = "txt" /\ output.fn = "none"
    /\ output' = [fn |-> "parse", chapters |-> SplitChapters(input.lines)]
    /\ UNCHANGED <<cacheVars, libVars, input>>

\* TxtAdapter.loadChapter on the book parse made
CallTxtLoadChapter(chapterId) ==
    /\ input.fn = "txt" /\ output.fn = "parse"
    /\ \E r \in {TxtLoadChapter(output.chapters, chapterId, input.lines)} :
           output' = [fn |-> "loadChapter", chapters |-> output.chapters,
                      chapterId |-> chapterId, raised |-> r.raised,
                      layers |-> r.layers]
    /\ UNCHANGED <<cacheVars, libVars, input>>

\* the paragraphs of chapters k, k + 1, ... of the book, end to end
RECURSIVE TxtLoadFrom(_, _, _)
TxtLoadFrom(book, k, lines) ==
    IF k >= Len(book) THEN <<>>
    ELSE Concat(TxtLoadChapter(book, k, lines).layers) \o
         TxtLoadFrom(book, k + 1, lines)

\* TxtAdapter.loadChapter on every chapter of the book, in id order
CallTxtLoadAll ==
    /\ input.fn = "txt" /\ output.fn = "parse"
    /\ output' = [fn |-> "loadAll", chapters |-> output.chapters,
                  paragraphs |-> TxtLoadFrom(output.chapters, 0, input.lines)]
    /\ UNCHANGED <<cacheVars, libVars, input>>

NextTxt ==
    \/ CallTxtParse
    \/ \E k \in -1 .. MaxLines : CallTxtLoadChapter(k)
    \/ CallTxtLoadAll

SpecTxt == InitTxt /\ [][NextTxt]_vars

\* ------------------------------------------------------------ library
\* The book store: the tables books (primary key id) and progress
\* (auto-increment key id, index bookId), and the calls importBook,
\* deleteBook and saveProgress.  Each call is a chain of awaits on one
\* table operation each; a step below is one table operation together
\* with the code that runs up to the next one.  Dexie runs each operation
\* in a transaction of its own.
MaxStored == 2          \* books stored at the start: ids within 1 .. 2
MaxImports == 2         \* importBook calls in one run
MaxDeletes == 1         \* deleteBook calls in one run
MaxSaves == 2           \* saveProgress calls in one run
MaxPosition == 2        \* scroll positions 1 .. 2

Files == {"a.txt", "b.epub", "c.pdf"}

\* `file.name.match(/\.(epub|txt)$/i)`
IsSupported(file) == file \in {"a.txt", "b.epub"}

Op(op, pc, file, id, position, existing) ==
    [op |-> op, pc |-> pc, file |-> file, id |-> id, position |-> position,
     existing |-> existing]

\* `db.books.orderBy('id').toArray()`: the ids in ascending order
RECURSIVE OrderById(_)
OrderById(ids) ==
    IF ids = {} THEN <<>>
    ELSE LET least == CHOOSE x \in ids : \A y \in ids : x <= y
         IN  <<least>> \o OrderById(ids \ {least})

\* the loop of getNextAvailableBookId, i as in the code
RECURSIVE FirstGap(_, _)
FirstGap(allBooks, i) ==
    IF i >= Len(allBooks) THEN Len(allBooks) + 1
    ELSE IF allBooks[i + 1] # i + 1 THEN i + 1
    ELSE FirstGap(allBooks, i + 1)

GetNextAvailableBookId(bs) ==
    LET allBooks == OrderById(DOMAIN bs)
    IN  IF Len(allBooks) = 0 THEN 1 ELSE FirstGap(allBooks, 0)

\* `db.progress.where('bookId').equals(bookId)`
WhereBookId(pr, bookId) == {r \in pr : r.bookId = bookId}

\* `.first()`: the record with the least primary key, or undefined
First(rs) ==
    IF rs = {} THEN NoProgress
    ELSE CHOOSE r \in rs : \A o \in rs : r.id <= o.id

\* what loadProgress(bookId) returns
LoadProgress(pr, bookId) == First(WhereBookId(pr, bookId))

\* `db.progress.update(key, progressData)`: nothing when the key is gone
Update(pr, key, position) ==
    {IF r.id = key THEN [r EXCEPT !.position = position] ELSE r : r \in pr}

\* `db.books.put(book)`: the record under book.id is added or replaced
Put(bs, id, file) == [k \in DOMAIN bs \cup {id} |-> IF k = id THEN file ELSE bs[k]]

\* `db.books.delete(bookId)`
Delete(bs, id) == [k \in DOMAIN bs \ {id} |-> bs[k]]

SetAt(f, k, v) == [x \in DOMAIN f \cup {k} |-> IF x = k THEN v ELSE f[x]]

\* a progress table for the books of P: one record each
RECURSIVE OneRecordEach(_, _)
OneRecordEach(order, key) ==
    IF order = <<>> THEN {}
    ELSE {[id |-> key, bookId |-> order[1], position |-> 1]} \cup
         OneRecordEach(Tail(order), key + 1)

Quotas ==
    {Quota(MaxImports, MaxDeletes, 0), Quota(1, MaxDeletes, 1),
     Quota(0, MaxDeletes, MaxSaves)}

InitLib ==
    /\ InitCache(0, Budget(0, 0, 0, 0, 0))
    /\ input = NoInput /\ output = NoOutput
    /\ \E S \in SUBSET (1 .. MaxStored), q \in Quotas :
       \E P \in SUBSET S :
           InitLibrary([k \in S |-> "a.txt"],
                       OneRecordEach(OrderById(P), 1), q)

\* importBook(file) up to `await getNextAvailableBookId()`: a file of
\* another kind is refused at once; reading and parsing touch no table
ImportBook(file) ==
    /\ lib.quota.imports > 0
    /\ IF IsSupported(file)
       THEN /\ ops' = Append(ops, Op("import", "nextId", file, 0, 0, 0))
            /\ lib' = [lib EXCEPT !.quota.imports = @ - 1, !.importing = TRUE]
       ELSE /\ ops' = ops
            /\ lib' = [lib EXCEPT !.quota.imports = @ - 1]
    /\ UNCHANGED <<cacheVars, input, output, db>>

\* getNextAvailableBookId reads the table; `unifiedBook.id = nextId` and
\* `db.books.put(book)` is requested
ImportNextId(i) ==
    /\ ops[i].op = "import" /\ ops[i].pc = "nextId"
    /\ ops' = [ops EXCEPT ![i].id = GetNextAvailableBookId(db.books),
                          ![i].pc = "put"]
    /\ UNCHANGED <<cacheVars, input, output, db, lib>>

\* the put is carried out; `await loadBooks()` is requested
ImportPut(i) ==
    /\ ops[i].op = "import" /\ ops[i].pc = "put"
    /\ db' = [db EXCEPT !.books = Put(db.books, ops[i].id, ops[i].file)]
    /\ ops' = [ops EXCEPT ![i].pc = "reload"]
    /\ UNCHANGED <<cacheVars, input, output, lib>>

\* loadBooks reads the table into books.value; importBook returns success
\* and `finally` resets `importing`
ImportReturn(i) ==
    /\ ops[i].op = "import" /\ ops[i].pc = "reload"
    /\ lib' = [lib EXCEPT !.shelf = DOMAIN db.books, !.importing = FALSE]
    /\ ops' = RemoveAt(ops, i)
    /\ UNCHANGED <<cacheVars, input, output, db>>

\* confirmDelete -> deleteBook(bookId) for a book on the shelf
DeleteBook(bookId) ==
    /\ lib.quota.deletes > 0
    /\ bookId \in lib.shelf
    /\ lib' = [lib EXCEPT !.quota.deletes = @ - 1]
    /\ ops' = Append(ops, Op("delete", "books", "", bookId, 0, 0))
    /\ UNCHANGED <<cacheVars, input, output, db>>

\* `await db.books.delete(bookId)` is carried out
DeleteBookRecord(i) ==
    /\ ops[i].op = "delete" /\ ops[i].pc = "books"
    /\ db' = [db EXCEPT !.books = Delete(db.books, ops[i].id)]
    /\ ops' = [ops EXCEPT ![i].pc = "progress"]
    /\ UNCHANGED <<cacheVars, input, output, lib>>

\* `await db.progress.where('bookId').equals(bookId).delete()`
DeleteProgress(i) ==
    /\ ops[i].op = "delete" /\ ops[i].pc = "progress"
    /\ db' = [db EXCEPT !.progress = @ \ WhereBookId(@, ops[i].id)]
    /\ lib' = [lib EXCEPT !.lastSaved = SetAt(@, ops[i].id, 0)]
    /\ ops' = [ops EXCEPT ![i].pc = "reload"]
    /\ UNCHANGED <<cacheVars, input, output>>

\* loadBooks reads the table into books.value; deleteBook returns
DeleteReturn(i) ==
    /\ ops[i].op = "delete" /\ ops[i].pc = "reload"
    /\ lib' = [lib EXCEPT !.shelf = DOMAIN db.books]
    /\ ops' = RemoveAt(ops, i)
    /\ UNCHANGED <<cacheVars, input, output, db>>

\* saveProgress(bookId, .., position) for the book the reader has open,
\* from the debounce timer or from onUnmounted: the read is requested
SaveProgress(bookId, position) ==
    /\ lib.quota.saves > 0
    /\ bookId \in DOMAIN db.books
    /\ lib' = [lib EXCEPT !.quota.saves = @ - 1]
    /\ ops' = Append(ops, Op("save", "read", "", bookId, position, 0))
    /\ UNCHANGED <<cacheVars, input, output, db>>

\* `existing = await db.progress.where('bookId').equals(bookId).first()`,
\* then the update or the add is requested
SaveRead(i) ==
    /\ ops[i].op = "save" /\ ops[i].pc = "read"
    /\ ops' = [ops EXCEPT ![i].existing = LoadProgress(db.progress, ops[i].id).id,
                          ![i].pc = "write"]
    /\ UNCHANGED <<cacheVars, input, output, db, lib>>

\* the update or the add is carried out, `currentProgress.value` is set
\* and saveProgress returns
SaveWrite(i) ==
    /\ ops[i].op = "save" /\ ops[i].pc = "write"
    /\ IF ops[i].existing # 0
       THEN db' = [db EXCEPT !.progress = Update(@, ops[i].existing,
                                                 ops[i].position)]
       ELSE db' = [db EXCEPT !.progress = @ \cup {[id |-> db.nextKey,
                                                   bookId |-> ops[i].id,
                                                   position |-> ops[i].position]},
                             !.nextKey = @ + 1]
    /\ lib' = [lib EXCEPT !.current = [id |-> 0, bookId |-> ops[i].id,
                                       position |-> ops[i].position],
                          !.lastSaved = SetAt(@, ops[i].id, ops[i].position)]
    /\ ops' = RemoveAt(ops, i)
    /\ UNCHANGED <<cacheVars, input, output>>

NextLib ==
    \/ \E file \in Files : ImportBook(file)
    \/ \E i \in 1 .. Len(ops) : ImportNextId(i)
    \/ \E i \in 1 .. Len(ops) : ImportPut(i)
    \/ \E i \in 1 .. Len(ops) : ImportReturn(i)
    \/ \E bookId \in 1 .. (MaxStored + MaxImports) : DeleteBook(bookId)
    \/ \E i \in 1 .. Len(ops) : DeleteBookRecord(i)
    \/ \E i \in 1 .. Len(ops) : DeleteProgress(i)
    \/ \E i \in 1 .. Len(ops) : DeleteReturn(i)
    \/ \E bookId \in 1 .. (MaxStored + MaxImports), position \in 1 .. MaxPosition :
           SaveProgress(bookId, position)
    \/ \E i \in 1 .. Len(ops) : SaveRead(i)
    \/ \E i \in 1 .. Len(ops) : SaveWrite(i)

SpecLib == InitLib /\ [][NextLib]_vars

\* ------------------------------------------------------------ claims
Events == {ev[i] : i \in 1 .. Len(ev)}

Evictions == {e \in Events : e.evicted # NoChapter}

\* C1: once a call's insertion-plus-eviction step is over, at most 5
\* chapters are resident, whoever called and however the calls interleave
C1_CacheCapacity == Cardinality(Resident(cache)) <= 5 /\ Len(cache) <= 5

\* an insertion by a prefetch-issued call evicted and left the cache full
C1_Witness ==
    \E e \in Evictions : e.by = "prefetch" /\ Cardinality(Resident(cache)) = 5

\* C2: the evicted entry has the least lastAccess of the entries resident
\* when it is evicted; a hit and a miss stamp their entry with the time then
C2_EvictsLeastRecent ==
    /\ \A e \in Evictions : e.evictedTime = e.minTime
    /\ Len(ev) = 1 /\ ev[1].op \in {"hit", "loaded"} /\ Has(cache, ev[1].id)
            => Get(cache, ev[1].id).lastAccess = MaxStamp(cache)

\* an eviction that took an entry that was not the first one inserted:
\* a hit had refreshed the older one
C2_Witness == \E e \in Evictions : e.evictedAt > 1

\* C3: eviction revokes every image handle the evicted chapter's layers carry
C3_EvictionReleasesHandles == \A e \in Evictions : e.carried \subseteq e.revoked

\* C4: no image handle is revoked twice
C4_NoDoubleRevoke == \A e \in Events : ~e.double

\* C5: a foreground getChapter(K) issued while K is in flight for a prefetch
\* task does not invoke the adapter's loadChapter for K again
C5_InFlightGuard == \A i \in 1 .. Len(fg) : ~fg[i].dup

\* C6: prefetch work that was in flight or scheduled when clear() ran is
\* forgotten: it leaves no resident entry and marks no id in flight
C6_ClearForgetsPrefetch ==
    \A e \in Events :
        e.by = "prefetch" /\ e.stale =>
            /\ e.op = "loaded" => e.id \notin e.resident
            /\ e.op = "issued" => e.id \notin prefetchQueue

\* C7: a foreground getChapter(K) that follows a returned getChapter(K), K
\* resident all the while, is a hit and returns the layers the first returned
C7_IdempotentLoad ==
    /\ lastRet.id # NoChapter /\ lastRet.lost = "no" => Has(cache, lastRet.id)
    /\ \A e \in Events : e.op = "hit" /\ e.prev # 0 => e.ret = e.prev

Window(k) == {k - 1, k + 1, k + 2} \cap ChapterIds

\* C8 as claimed: every successful getChapter(K) schedules the window of K
\* less the resident ids
C8_PrefetchWindowAsClaimed ==
    \A e \in Events :
        e.op \in {"hit", "loaded"} => e.sched = Window(e.id) \ e.resident

\* C8 as amended: a getChapter(K) that loads K schedules the window of K less
\* the ids resident or in flight then; a hit schedules nothing
C8_PrefetchWindow ==
    \A e \in Events :
        /\ e.op = "loaded" => e.sched = (Window(e.id) \ e.resident) \ e.inflight
        /\ e.op = "hit" => e.sched = {}

\* a load that left a neighbour out only because it was in flight
C8_Witness ==
    \E e \in Events :
        /\ e.op = "loaded"
        /\ e.sched # {}
        /\ (Window(e.id) \ e.resident) \cap e.inflight # {}

Quiescent == budget.calls = 0 /\ fg = <<>> /\ tasks = <<>> /\ idle = <<>>

\* C9: on the 10-chapter book, once getChapter(2) and all the prefetch work
\* it led to are over, exactly chapters 1, 2, 3, 4 are resident
C9_ScenarioD == Quiescent => Resident(cache) = {1, 2, 3, 4}

\* C10: the chapter the latest foreground call returned is not evicted by a
\* prefetch insertion before the next foreground call
C10_CurrentStaysResident == ~(lastRet.open /\ lastRet.lost = "prefetch")

\* C11: getChapter on an id below 0 or not below N fails, returns no layers
\* and leaves the resident set, the stamps, the in-flight set, the book's
\* chapters and the scheduled prefetch work as they were
C11_OutOfRangeRejected ==
    [][\A i \in 1 .. Len(ev') :
          ev'[i].op \in {"hit", "loaded", "issued", "failed"}
              /\ ev'[i].id \notin ChapterIds =>
                  /\ ev'[i].op = "failed"
                  /\ ev'[i].ret = 0
                  /\ cache' = cache
                  /\ chapters' = chapters
                  /\ prefetchQueue' = prefetchQueue
                  /\ idle' = idle
                  /\ tasks' = tasks
                  /\ fg' = fg]_vars

\* a call on the id N failed while chapters were resident and chapter N-1,
\* the one a clamp would pick, was not
C11_Witness ==
    \E e \in Events :
        /\ e.op = "failed" /\ e.by = "fg" /\ e.id = numChapters
        /\ cache # <<>>
        /\ ~Has(cache, numChapters - 1)

\* C12: after every cache operation the book mirrors the cache: a chapter
\* is marked loaded exactly when it is resident, holds the entry's layers
\* when resident and no layers when not
C12_BookMirrorsCache ==
    \A k \in ChapterIds :
        /\ chapters[k].isLoaded <=> Has(cache, k)
        /\ Has(cache, k) => chapters[k].layers = Get(cache, k).layers
        /\ ~Has(cache, k) => chapters[k].layers = 0

Chunked == input.fn = "chunk" /\ output.fn \in {"txt", "epub", "lib"}

C14_ChunkSizeBound ==
    Chunked =>
        \A i \in 1 .. Len(output.layers) :
            LET ps == output.layers[i].paragraphs
            IN  /\ Len(ps) >= 2 => TotalChars(ps) <= 15000
                /\ TotalChars(ps) > 15000 => Len(ps) = 1 /\ ps[1].length > 15000

\* an EPUB call that gave a layer of exactly 15000 characters in two
\* paragraphs and a layer of one paragraph above 15000
C14_Witness ==
    /\ Chunked /\ output.fn = "epub"
    /\ \E i, j \in 1 .. Len(output.layers) :
           /\ Len(output.layers[i].paragraphs) = 2
           /\ TotalChars(output.layers[i].paragraphs) = 15000
           /\ TotalChars(output.layers[j].paragraphs) > 15000

HasImage(layer) == layer.image # NoImage

\* C15: for chunkParagraphs (start 0) and addParagraphsWithChunking of
\* useUnifiedLibrary.ts, the first layer starts at the start index, each
\* next layer at the previous start + its paragraphs + 1 for its image,
\* and the index returned is start + paragraphs + 1 for an image passed
C15_ChunkIndexContinuity ==
    Chunked /\ output.fn \in {"txt", "lib"} =>
        LET L == output.layers
        IN  /\ L # <<>> => L[1].startIndex = input.startIndex
            /\ \A i \in 1 .. (Len(L) - 1) :
                   L[i + 1].startIndex =
                       L[i].startIndex + Len(L[i].paragraphs) +
                       (IF HasImage(L[i]) THEN 1 ELSE 0)
            /\ output.fn = "lib" =>
                   output.next = input.startIndex + Len(input.paragraphs) +
                                 (IF input.image # NoImage THEN 1 ELSE 0)

\* a call of the useUnifiedLibrary.ts chunker with an image, from a start
\* index above 0, that split its paragraphs
C15_Witness ==
    /\ Chunked /\ output.fn = "lib"
    /\ input.image # NoImage /\ input.startIndex > 0
    /\ Len(output.layers) >= 2

IndexContinuous(L, start) ==
    /\ L # <<>> => L[1].startIndex = start
    /\ \A i \in 1 .. (Len(L) - 1) :
           L[i + 1].startIndex =
               L[i].startIndex + Len(L[i].paragraphs) +
               (IF HasImage(L[i]) THEN 1 ELSE 0)

\* C17: the layers parseHTML gives for a chapter start at index 0 and are
\* index-continuous, image-only layers, nested containers and the final
\* flush included; in adapters/EpubAdapter.ts and in useUnifiedLibrary.ts
C17_ParseIndexContinuity ==
    input.fn = "parseHTML" /\ output.fn \in {"epubParse", "libParse"} =>
        IndexContinuous(output.layers, 0)

\* C18: on a valid chapter id EpubAdapter.loadChapter returns layers and
\* does not raise; when opening, resolving, loading or parsing fails it
\* returns one diagnostic layer (a paragraph or more, start index 0, no
\* image); it raises for an invalid id only
C18_LoadNeverRaises ==
    input.fn = "loadChapter" /\ output.fn = "loadChapter" =>
        LET valid == ~NoSuchChapter(input.book, input.chapterId)
            fresh == valid /\ ~ChapterIsLoaded(input.book[input.chapterId + 1])
        IN  /\ output.raised <=> ~valid
            /\ fresh /\ input.fails # "none" =>
                   /\ Len(output.layers) = 1
                   /\ Len(output.layers[1].paragraphs) >= 1
                   /\ output.layers[1].startIndex = 0
                   /\ ~HasImage(output.layers[1])

\* the 1-based positions of the heading lines of the file, in order
HeadingPositions(lines) ==
    SelectSeq([i \in 1 .. Len(lines) |-> i],
              LAMBDA i : IsHeading(Trim(lines[i])))

\* the trimmed non-blank lines at positions from .. to, as paragraphs
RECURSIVE LinesBetween(_, _, _)
LinesBetween(lines, from, to) ==
    IF from > to THEN <<>>
    ELSE (IF Trim(lines[from]) = "" THEN <<>>
          ELSE <<[text |-> Trim(lines[from]), length |-> Chars(Trim(lines[from]))]>>)
         \o LinesBetween(lines, from + 1, to)

\* what the chapter made from the h-th heading line is to hold
ChapterLines(lines, h) ==
    LET hp == HeadingPositions(lines)
    IN  LinesBetween(lines, hp[h] + 1,
                     IF h < Len(hp) THEN hp[h + 1] - 1 ELSE Len(lines))

\* C19: for a chapter of a parsed TXT book, loadChapter returns, a
\* paragraph per line and in file order, the trimmed non-blank lines
\* between the chapter's heading line and the next heading line or the end
C19_TxtChapterContent ==
    input.fn = "txt" /\ output.fn = "loadChapter" /\ ~output.raised =>
        LET hp == HeadingPositions(input.lines)
            \* chapters made before the first heading (0 or 1)
            pre == Len(output.chapters) - Len(hp)
            h   == output.chapterId + 1 - pre
        IN  hp # <<>> /\ h >= 1 =>
                Concat(output.layers) = ChapterLines(input.lines, h)

\* C20 as claimed: a text with exactly two heading lines parses to exactly
\* two chapters, titled by those lines in order
C20_TwoHeadingsAsClaimed ==
    input.fn = "txt" /\ output.fn = "parse"
                     /\ Len(HeadingPositions(input.lines)) = 2 =>
        LET hp == HeadingPositions(input.lines)
        IN  /\ Len(output.chapters) = 2
            /\ \A h \in 1 .. 2 :
                   output.chapters[h].title = Trim(input.lines[hp[h]])

\* a non-blank line stands before the first heading line
HasPreface(lines) ==
    LET hp == HeadingPositions(lines)
    IN  \E i \in 1 .. (hp[1] - 1) : Trim(lines[i]) # ""

\* C20 as amended: with no non-blank line before the first heading the two
\* heading lines give exactly two chapters, titled by them in order; with
\* one, a default first chapter precedes them
C20_TwoHeadings ==
    input.fn = "txt" /\ output.fn = "parse"
                     /\ Len(HeadingPositions(input.lines)) = 2 =>
        LET hp  == HeadingPositions(input.lines)
            pre == IF HasPreface(input.lines) THEN 1 ELSE 0
        IN  /\ Len(output.chapters) = 2 + pre
            /\ pre = 1 => output.chapters[1].title = "body"
            /\ \A h \in 1 .. 2 :
                   /\ output.chapters[h + pre].title = Trim(input.lines[hp[h]])
                   /\ output.chapters[h + pre].id = h + pre - 1

\* a text with a line of text, then two different heading lines, the
\* first of them padded, was parsed to three chapters
C20_Witness ==
    /\ input.fn = "txt" /\ output.fn = "parse"
    /\ Len(HeadingPositions(input.lines)) = 2
    /\ HasPreface(input.lines)
    /\ input.lines[HeadingPositions(input.lines)[1]].pad
    /\ Len(output.chapters) = 3
    /\ output.chapters[2].title # output.chapters[3].title

\* the ids of batch t from position `from` on that the step either found
\* resident or called getChapter on
Attempted(t, from, upto) ==
    \A j \in from .. upto :
        \/ t.ids[j] \in Resident(cache)
        \/ \E n \in 1 .. Len(ev') : /\ ev'[n].id = t.ids[j]
                                    /\ ev'[n].by = "prefetch"
                                    /\ ev'[n].op \in {"issued", "loaded"}

\* the clauses of C21 about the step in which the load rejects: the loop
\* goes on with the ids after it, no foreground call fails or is touched,
\* and the failed id leaves the in-flight set
FailureSkipped(i, dt) ==
    PrefetchLoadFail(i, dt) =>
        LET t     == tasks[i]
            ended == Len(tasks') < Len(tasks)
        IN  /\ ev'[1].op = "failed" /\ ev'[1].id = t.ids[t.pos]
            /\ \A n \in 1 .. Len(ev') : ev'[n].by = "prefetch"
            /\ fg' = fg
            /\ lastRet'.open = lastRet.open
            /\ t.ids[t.pos] \notin prefetchQueue'
            /\ ended => Attempted(t, t.pos + 1, Len(t.ids))
            /\ ~ended => /\ tasks'[i].ids = t.ids
                         /\ tasks'[i].pos > t.pos
                         /\ Attempted(t, t.pos + 1, tasks'[i].pos)

\* the step ends batch i, a load of which was rejected (now or before)
FailedBatchEnds(i, dt) ==
    /\ PrefetchLoadFail(i, dt) \/ (tasks[i].failed /\ PrefetchLoadDone(i, dt))
    /\ Len(tasks') < Len(tasks)

\* the ids other batches are waiting on after the step
LoadingElsewhere == {tasks'[j].ids[tasks'[j].pos] : j \in 1 .. Len(tasks')}

\* C21 as claimed: a rejected load of a prefetch batch is skipped (the
\* later ids are attempted, no foreground call sees the error) and when
\* the batch has finished none of its ids is in the in-flight set
C21_AsClaimed ==
    [][\A i \in 1 .. Len(tasks), dt \in {0, 1} :
          /\ FailureSkipped(i, dt)
          /\ FailedBatchEnds(i, dt) =>
                 SeqToSet(tasks[i].ids) \cap prefetchQueue' = {}]_vars

\* C21 as amended: a rejected load of a prefetch batch is skipped (the
\* later ids are attempted, no foreground call sees the error), the failed
\* id is unmarked at once, and when the batch has finished the in-flight
\* set holds none of its ids but those another batch is loading then
C21_PrefetchFailureContained ==
    [][\A i \in 1 .. Len(tasks), dt \in {0, 1} :
          /\ FailureSkipped(i, dt)
          /\ FailedBatchEnds(i, dt) =>
                 SeqToSet(tasks[i].ids) \cap prefetchQueue' \subseteq
                     LoadingElsewhere]_vars

\* a load of a prefetch batch was rejected and in the same step the batch
\* went on to call getChapter on a later id of it
C21_Witness ==
    /\ Len(ev) >= 2
    /\ ev[1].op = "failed" /\ ev[1].by = "prefetch"
    /\ ev[2].op = "issued" /\ ev[2].by = "prefetch"
    /\ \E i \in 1 .. Len(tasks) : /\ ev[1].id \in SeqToSet(tasks[i].ids)
                                  /\ tasks[i].ids[tasks[i].pos] = ev[2].id

\* C22: no layer of either adapter holds more than 15000 characters, and
\* paragraphs of more than 15000 characters in all come out as two or more
\* layers
C22_LayerHardLimit ==
    Chunked =>
        /\ \A i \in 1 .. Len(output.layers) :
               TotalChars(output.layers[i].paragraphs) <= MAX_LAYER_LENGTH
        /\ TotalChars(input.paragraphs) > MAX_LAYER_LENGTH =>
               Len(output.layers) >= 2

\* C23: a put of importBook adds a book (the id it stores under was free)
\* and the delete of a stored book takes one away, whatever else is in
\* flight
C23_ImportAddsOne ==
    [][\A i \in 1 .. Len(ops) :
          /\ ImportPut(i) =>
                 /\ ops[i].id \notin DOMAIN db.books
                 /\ Cardinality(DOMAIN db'.books) =
                        Cardinality(DOMAIN db.books) + 1
          /\ DeleteBookRecord(i) /\ ops[i].id \in DOMAIN db.books =>
                 Cardinality(DOMAIN db'.books) =
                     Cardinality(DOMAIN db.books) - 1]_vars

\* C24: when deleteBook(id) returns, the books table has no record with
\* that id and the progress table none with that bookId, and a book put
\* under a free id has no progress record
C24_DeleteCascades ==
    [][\A i \in 1 .. Len(ops) :
          /\ DeleteReturn(i) =>
                 /\ ops[i].id \notin DOMAIN db'.books
                 /\ WhereBookId(db'.progress, ops[i].id) = {}
          /\ ImportPut(i) /\ ops[i].id \notin DOMAIN db.books =>
                 WhereBookId(db'.progress, ops[i].id) = {}]_vars

\* C30: while no book has been deleted, whatever saveProgress calls are in
\* flight, the progress table holds at most one record for a book, and
\* once a save for the book has returned loadProgress gives the position
\* of the save that returned last
C30_OneProgressRecord ==
    lib.quota.deletes = MaxDeletes =>
        \A b \in 1 .. (MaxStored + MaxImports) :
            /\ Cardinality(WhereBookId(db.progress, b)) <= 1
            /\ b \in DOMAIN lib.lastSaved =>
                   LoadProgress(db.progress, b).position = lib.lastSaved[b]

\* the paragraph lists of the layers, in layer order
Groups(layers) == [i \in 1 .. Len(layers) |-> layers[i].paragraphs]

\* g cuts P into consecutive non-empty groups with a cut before a
\* paragraph exactly when the group so far plus that paragraph would
\* exceed 15000 characters
IsGreedy(P, g) ==
    /\ Concat([i \in 1 .. Len(g) |-> [paragraphs |-> g[i]]]) = P
    /\ \A k \in 1 .. Len(g) : g[k] # <<>>
    /\ \A k \in 1 .. Len(g) : \A j \in 2 .. Len(g[k]) :
           TotalChars(SubSeq(g[k], 1, j - 1)) + g[k][j].length <= 15000
    /\ \A k \in 1 .. (Len(g) - 1) :
           TotalChars(g[k]) + g[k + 1][1].length > 15000

RECURSIVE Strip(_)
Strip(children) ==
    IF children = <<>> THEN <<>>
    ELSE LET child == children[1]
         IN  (IF child.tag = "img" /\ ~ImageLoads(child.src) THEN <<>>
              ELSE <<[child EXCEPT !.children = Strip(@)]>>)
             \o Strip(Tail(children))

\* C26: an image that cannot be resolved or fetched (an external URL
\* included) leaves the walk as if the element were not there: no layer
\* for it, the index as it was, the pending paragraphs kept for the next
\* flush, the following nodes read and the chapter parsed
C26_FailedImageSkipped ==
    input.fn = "parseHTML" =>
        /\ output.fn = "epubParse" =>
               output.layers = EpubParseHTML(Strip(input.body))
        /\ output.fn = "libParse" =>
               output.layers = LibParseHTML(Strip(input.body))

\* a paragraph, an image with an external URL and a heading came out as
\* one layer of two paragraphs
C26_Witness ==
    /\ input.fn = "parseHTML" /\ output.fn = "epubParse"
    /\ Len(input.body) = 3
    /\ input.body[1].tag = "p"
    /\ input.body[2].tag = "img" /\ input.body[2].src = "http"
    /\ input.body[3].tag = "h1"
    /\ Len(output.layers) = 1
    /\ Len(output.layers[1].paragraphs) = 2

\* C27: no foreground getChapter returns layers whose image handles have
\* been revoked by the time it returns, a call made after clear() on the
\* same cache and book included
C27_ReturnsLiveHandles ==
    \A e \in Events : e.by = "fg" /\ e.op \in {"hit", "loaded"} => ~e.dead

\* a step in which prefetchChapters hands an id to the adapter
LoadIssued ==
    \E i \in 1 .. Len(ev') : ev'[i].op = "issued" /\ ev'[i].by = "prefetch"

\* C28: after one foreground getChapter(K), with every idle callback run
\* and every load resolved in the end, prefetch quiesces: from some point
\* on no further adapter load is issued
C28_PrefetchQuiesces == <>[][~LoadIssued]_vars

\* no two heading lines of the file read the same once trimmed
DistinctHeadings(lines) ==
    LET hp == HeadingPositions(lines)
    IN  \A i, j \in 1 .. Len(hp) :
            i # j => Trim(lines[hp[i]]) # Trim(lines[hp[j]])

\* the non-blank, non-heading lines of the file, trimmed, as paragraphs
BodyLines(lines) ==
    LET body == SelectSeq(lines, LAMBDA l : Trim(l) # "" /\ ~IsHeading(Trim(l)))
    IN  [i \in 1 .. Len(body) |->
            [text |-> Trim(body[i]), length |-> Chars(Trim(body[i]))]]

\* C29: when the heading lines of a text file are pairwise distinct, the
\* paragraphs loadChapter returns for chapters 0, 1, ... put end to end
\* are the non-blank, non-heading lines of the file, each once and in
\* file order, the lines before the first heading included
C29_ChaptersPartitionBody ==
    input.fn = "txt" /\ output.fn = "loadAll"
                     /\ DistinctHeadings(input.lines) =>
        output.paragraphs = BodyLines(input.lines)

=============================================================================
